---- MODULE Spec2Model ----
(***************************************************************************)
(* A model of watchman's log.c: the log entry point w_log with its two     *)
(* sink gates, the line formatter and its fixed buffer, the fatal path     *)
(* (log_stack_trace + abort), the fault-signal handler crash_handler and   *)
(* the per-thread name registry (w_get_thread_name / w_set_thread_name).   *)
(*                                                                         *)
(* Every thread of the daemon has a call stack of frames; one action is    *)
(* one step of the function on top of a thread's stack.  A string is a     *)
(* sequence of tokens; the line buffer is an array of cells that hold a    *)
(* token, the terminator NUL, or stack garbage.                            *)
(***************************************************************************)
EXTENDS Integers, Sequences, FiniteSets, TLC

(* ------------------------------ bounds -------------------------------- *)

\* Application-level operations (calls and fault signals) in one run.
MaxOps == 2

\* Capacity of the line buffer, scaled down from char buf[4096].
BufSize == 8

\* Frames backtrace() may capture, scaled down from void *array[24].
MaxFrames == 1

(* ----------------------- severities (watchman.h) ---------------------- *)

\* The severity scale is declared in watchman.h; lower is more severe.
W_LOG_FATAL == 0
W_LOG_ERR == 1
W_LOG_DBG == 2

Severities == {W_LOG_FATAL, W_LOG_ERR, W_LOG_DBG}

\* int log_level: any integer can be configured; one value below the scale
\* and every value on it are kept.
LogLevels == (W_LOG_FATAL - 1) .. W_LOG_DBG

Threads == {1, 2}

(* ------------------------------ strings ------------------------------- *)

NUL == "\\0"
GARBAGE == "?"
NL == "\n"

Min(a, b) == IF a < b THEN a ELSE b

Take(s, n) == SubSeq(s, 1, Min(n, Len(s)))

\* One conversion of a printf-style format: the directive token "%d" (or
\* "%u") is replaced by the decimal text of the argument, every other
\* token is copied.
Render(fmt, arg) ==
  [i \in 1..Len(fmt) |-> IF fmt[i] \in {"%d", "%u"} THEN ToString(arg) ELSE fmt[i]]

\* (uint32_t)(uintptr_t)pthread_self(): a thread's identifier, distinct per
\* thread and already in the range of uint32_t.
PthreadSelf(t) == 1000 + t

\* As DefaultFmt, with a format that has no directive.
DefaultFmtPlain == <<"thread">>

\* The default name w_get_thread_name renders: "%" PRIu32 of the thread id.
DefaultFmt == <<"%u">>
DefaultName(t) == Render(DefaultFmt, PthreadSelf(t))

\* "%s,%03d: [%s] " with the time of day: the time text and its
\* milliseconds are one token.
Prefix(name) == <<"T", "[">> \o name \o <<"]", " ">>

(* --------------------------- the line buffer -------------------------- *)

Cells == 0 .. (BufSize - 1)

\* char buf[4096], not initialised
FreshBuf == [i \in Cells |-> GARBAGE]

\* The cells s occupies when stored from offset off; cells beyond the
\* array are not part of buf.
StoreAt(buf, off, s) ==
  [i \in Cells |-> IF off <= i /\ i < off + Len(s) THEN s[i - off + 1] ELSE buf[i]]

\* snprintf and vsnprintf storing the text s at buf + off with the limit
\* size: at most size-1 tokens and a NUL.  c99 = FALSE is the older
\* convention the test of line 159 is written for: on truncation size
\* tokens are stored with no NUL and -1 is returned.
SnprintfBuf(buf, off, size, s, c99) ==
  IF size <= 0 THEN buf
  ELSE IF Len(s) < size THEN StoreAt(buf, off, s \o <<NUL>>)
  ELSE IF c99 THEN StoreAt(buf, off, Take(s, size - 1) \o <<NUL>>)
  ELSE StoreAt(buf, off, Take(s, size))

SnprintfRet(size, s, c99) ==
  IF c99 \/ Len(s) < size THEN Len(s) ELSE -1

\* buf[i]; a cell outside the array holds whatever the stack holds there.
Cell(buf, i) == IF i \in Cells THEN buf[i] ELSE GARBAGE

\* strlen(buf): the index of the first NUL (BufSize when there is none:
\* the scan runs off the array).
Strlen(buf) ==
  IF \E i \in Cells : buf[i] = NUL
  THEN CHOOSE i \in Cells : buf[i] = NUL /\ \A j \in 0..(i - 1) : buf[j] # NUL
  ELSE BufSize

\* The text of buf up to its terminator.
Text(buf) == [i \in 1..Strlen(buf) |-> buf[i - 1]]

\* The cells snprintf stores into (some may lie outside the array).
SnprintfCells(off, size, s, c99) ==
  IF size <= 0 THEN {}
  ELSE IF Len(s) < size THEN off .. (off + Len(s))
  ELSE off .. (off + size - 1)

\* sizeof(buf) - len in size_t arithmetic: a len beyond the array wraps
\* around to a size near SIZE_MAX (scaled to the model's integers),
\* larger than any string.
SIZE_MAX == 2^30 - 1
RestSize(len) == IF len > BufSize THEN SIZE_MAX + 1 - (len - BufSize) ELSE BufSize - len

\* As EnsureNewline, without the test for room: the newline always goes
\* over the last token.
EnsureNewlineOverwrites(buf) ==
  LET n == Strlen(buf)
  IN  IF Cell(buf, n - 1) # NL THEN StoreAt(buf, n - 1, <<NL>>) ELSE buf

\* lines 164-174: a line that does not end in a newline gets one, behind
\* its text when there is room for it and its NUL, else over its last token.
EnsureNewline(buf) ==
  LET n == Strlen(buf)
  IN  IF Cell(buf, n - 1) # NL
      THEN IF n < BufSize - 1
           THEN [buf EXCEPT ![n] = NL, ![n + 1] = NUL]
           ELSE StoreAt(buf, n - 1, <<NL>>)
      ELSE buf

\* lines 159-162: vsnprintf reported a truncation by -1
Terminated(buf, len2) == IF len2 = -1 THEN [buf EXCEPT ![BufSize - 1] = NUL] ELSE buf

\* w_log, lines 153-174: the prefix, the body behind it, the terminator
\* after truncation, and the trailing newline.  The result is the buffer,
\* the length handed to write(), and whether a cell outside the array was
\* touched.  The return value of snprintf in line 153 is used as a length,
\* as C99 defines it; c99 tells what vsnprintf in line 156 does when it
\* truncates.
FormatLine(name, body, c99) ==
  LET pre  == Prefix(name)
      b1   == SnprintfBuf(FreshBuf, 0, BufSize, pre, TRUE)
      len  == SnprintfRet(BufSize, pre, TRUE)
      size == RestSize(len)
      b2   == SnprintfBuf(b1, len, size, body, c99)
      len2 == SnprintfRet(size, body, c99)
      b3   == Terminated(b2, len2)
      b4   == EnsureNewline(b3)
  IN  [buf |-> b4, len |-> Strlen(b4), len1 |-> len, len2 |-> len2,
       oob |-> \/ SnprintfCells(len, size, body, c99) \ Cells # {}
               \/ \A i \in Cells : b3[i] # NUL
               \/ Strlen(b3) - 1 \notin Cells]

(* ------------------------- fault decoding ----------------------------- *)

\* siginfo_t *si: absent (NULL) or a record with si_signo and si_code.
NoInfo == [present |-> FALSE, si_signo |-> "", si_code |-> ""]
Info(signo, code) == [present |-> TRUE, si_signo |-> signo, si_code |-> code]

\* As Reason, without the inner switches on si_code: every fault of a
\* signal gets the signal's first reason.
ReasonBySignalOnly(si) ==
  IF ~si.present THEN ""
  ELSE CASE si.si_signo = "SIGILL" -> "illegal opcode"
         [] si.si_signo = "SIGFPE" -> "integer divide by zero"
         [] si.si_signo = "SIGSEGV" -> "address not mapped to object"
         [] si.si_signo = "SIGBUS" -> "invalid address alignment"
         [] OTHER -> ""

\* crash_handler, lines 31-75: the reason text of a fault.
Reason(si) ==
  IF ~si.present THEN ""
  ELSE CASE si.si_signo = "SIGILL" ->
              (CASE si.si_code = "ILL_ILLOPC" -> "illegal opcode"
                 [] si.si_code = "ILL_ILLOPN" -> "illegal operand"
                 [] si.si_code = "ILL_ILLADR" -> "illegal addressing mode"
                 [] si.si_code = "ILL_ILLTRP" -> "illegal trap"
                 [] si.si_code = "ILL_PRVOPC" -> "privileged opcode"
                 [] si.si_code = "ILL_PRVREG" -> "privileged register"
                 [] si.si_code = "ILL_COPROC" -> "co-processor error"
                 [] si.si_code = "ILL_BADSTK" -> "internal stack error"
                 [] OTHER -> "")
         [] si.si_signo = "SIGFPE" ->
              (CASE si.si_code = "FPE_INTDIV" -> "integer divide by zero"
                 [] si.si_code = "FPE_INTOVF" -> "integer overflow"
                 [] si.si_code = "FPE_FLTDIV" -> "floating point divide by zero"
                 [] si.si_code = "FPE_FLTOVF" -> "floating point overflow"
                 [] si.si_code = "FPE_FLTUND" -> "floating point underflow"
                 [] si.si_code = "FPE_FLTRES" -> "floating point inexact result"
                 [] si.si_code = "FPE_FLTINV" -> "invalid floating point operation"
                 [] si.si_code = "FPE_FLTSUB" -> "subscript out of range"
                 [] OTHER -> "")
         [] si.si_signo = "SIGSEGV" ->
              (CASE si.si_code = "SEGV_MAPERR" -> "address not mapped to object"
                 [] si.si_code = "SEGV_ACCERR" -> "invalid permissions for mapped object"
                 [] OTHER -> "")
         [] si.si_signo = "SIGBUS" ->
              (CASE si.si_code = "BUS_ADRALN" -> "invalid address alignment"
                 [] si.si_code = "BUS_ADRERR" -> "non-existent physical address"
                 [] OTHER -> "")
         [] OTHER -> ""

\* w_setup_signal_handlers: the signals crash_handler is registered for.
FaultSignals == {"SIGSEGV", "SIGBUS", "SIGFPE", "SIGILL"}

\* "Terminating due to signal %d %s. %s (%p)\n", rendered.
CrashMessage(signo, reason) == <<signo, reason, NL>>

\* The faults delivered in a run: without a fault-info record, and with one.
FaultInputs ==
  { <<"SIGILL", NoInfo>>,
    <<"SIGSEGV", Info("SIGSEGV", "SEGV_MAPERR")>> }

(* ------------------------------ inputs -------------------------------- *)

Fill(c, n) == [i \in 1..n |-> c]

\* Tokens of body left in the buffer behind the prefix of a thread that has
\* its default name.
Room == BufSize - 1 - Len(Prefix(DefaultName(1)))

\* Rendered message bodies of the application's calls: one that fits and
\* one that is too long.
Bodies == { Fill("a", Room - 1), Fill("a", Room + 2) }

\* Arguments of w_set_thread_name: "worker-%d" with 7, and a name that makes
\* the prefix longer than the buffer.
NameInputs ==
  { [fmt |-> <<"worker-", "%d">>, arg |-> 7],
    [fmt |-> Fill("n", BufSize - 3), arg |-> 0] }

\* Lines of a symbolised stack: strings[i] of backtrace_symbols.
FrameLine(i) == <<"frame", ToString(i), NL>>
HeaderLine == <<"Fatal error detected at:", NL>>

(* ------------------------------- state -------------------------------- *)

NULL == 0
Addrs == 1 .. (MaxOps + Cardinality(Threads))

VARIABLES
  log_level,        \* int log_level
  clients,          \* w_should_log_to_clients: its answer for each severity
  have_backtrace,   \* HAVE_BACKTRACE && HAVE_BACKTRACE_SYMBOLS
  vsnprintf_c99,    \* the C library's vsnprintf follows C99 on truncation
  stack,            \* per thread, the frames of its active calls, top first
  tls,              \* pthread_getspecific(thread_name_key) of each thread
  heap,             \* the strings vasprintf allocated
  stderr_out,       \* the write() calls on STDERR_FILENO
  client_out,       \* the w_log_to_clients calls
  entry_log,        \* the calls of w_log, in order
  aborted,          \* abort() was called
  ub,               \* kinds of undefined behaviour that occurred
  ops,              \* application-level operations so far
  ev,               \* the last call that completed
  last_set,         \* per thread, the last w_set_thread_name of the application
  last_get          \* per thread, what w_get_thread_name returned since then

vars == <<log_level, clients, have_backtrace, vsnprintf_c99, stack, tls, heap,
          stderr_out, client_out, entry_log, aborted, ub, ops, ev, last_set,
          last_get>>

Frame0 ==
  [fn |-> "", pc |-> "", cid |-> 0, level |-> 0, body |-> <<>>, fatal |-> FALSE,
   should_log_to_stderr |-> FALSE, should_log_to_clients |-> FALSE,
   buf |-> FreshBuf, len |-> 0, rv |-> NULL, fmt |-> <<>>, arg |-> 0,
   name |-> NULL, tname |-> <<>>, size |-> 0, i |-> 0, signo |-> "", si |-> NoInfo, reason |-> ""]

NoEv == [kind |-> "none", t |-> 0, f |-> Frame0, app |-> FALSE, val |-> NULL,
         str |-> <<>>, prev |-> NULL]

NeverSet == [set |-> FALSE, ok |-> FALSE, fmt |-> <<>>, arg |-> 0]

NoCell == [st |-> "unused", str |-> <<>>]

Init ==
  /\ log_level = W_LOG_ERR
  /\ clients = [l \in Severities |-> FALSE]
  /\ have_backtrace \in BOOLEAN
  /\ vsnprintf_c99 \in BOOLEAN
  /\ stack = [t \in Threads |-> <<>>]
  /\ tls = [t \in Threads |-> NULL]
  /\ heap = [a \in Addrs |-> NoCell]
  /\ stderr_out = <<>>
  /\ client_out = <<>>
  /\ entry_log = <<>>
  /\ aborted = FALSE
  /\ ub = {}
  /\ ops = 0
  /\ ev = NoEv
  /\ last_set = [t \in Threads |-> NeverSet]
  /\ last_get = [t \in Threads |-> NULL]

(* ---------------------------- call stacks ----------------------------- *)

Top(t) == stack[t][1]

At(t, fn, pc) ==
  /\ ~aborted
  /\ stack[t] # <<>>
  /\ Top(t).fn = fn
  /\ Top(t).pc = pc

\* The function on top of t's stack moves on within its body.
Goto(t, f) == stack' = [stack EXCEPT ![t] = <<f>> \o Tail(@)]

\* The function on top of t's stack, left as f, calls callee.
Call(t, f, callee) == stack' = [stack EXCEPT ![t] = <<callee, f>> \o Tail(@)]

\* A function returning void returns to its caller (or, for the fault
\* handler, to the code the signal interrupted).
Leave(t) == stack' = [stack EXCEPT ![t] = Tail(@)]

\* A function returns the pointer v to its caller.
LeaveWith(t, v) ==
  stack' = [stack EXCEPT ![t] =
              IF Len(@) = 1 THEN <<>>
              ELSE <<[@[2] EXCEPT !.rv = v]>> \o SubSeq(@, 3, Len(@))]

\* The call on top of t's stack was made by the application.
ByApp(t) == Len(stack[t]) = 1

StrAt(h, p) == IF p = NULL THEN <<>> ELSE h[p].str

\* The call on top of t's stack returns v, with f its frame at that time.
Returned(t, f, v, h) ==
  [kind |-> "return", t |-> t, f |-> f, app |-> ByApp(t), val |-> v,
   str |-> StrAt(h, v), prev |-> last_get[t]]

\* The w_log call on top of t's stack passed its gates, with f its frame then.
Gated(t, f) ==
  [kind |-> "gated", t |-> t, f |-> f, app |-> ByApp(t), val |-> NULL,
   str |-> <<>>, prev |-> NULL]

InHandler(t) == \E k \in 1..Len(stack[t]) : stack[t][k].fn = "crash_handler"

(* ------------------------- the application ---------------------------- *)

LogFrame(level, body) ==
  [Frame0 EXCEPT !.fn = "w_log", !.pc = "gates", !.cid = Len(entry_log) + 1,
                 !.level = level, !.body = body]

Entered(t, level, body, by, parent) ==
  entry_log' = Append(entry_log,
     [cid |-> Len(entry_log) + 1, t |-> t, level |-> level, body |-> body,
      by |-> by, parent |-> parent])

\* A thread of the daemon calls w_log(level, fmt, ...); body is the text the
\* format and its arguments render to.
AppLog(t, level, body) ==
  /\ ~aborted /\ stack[t] = <<>> /\ ops < MaxOps
  /\ stack' = [stack EXCEPT ![t] = <<LogFrame(level, body)>>]
  /\ Entered(t, level, body, "app", 0)
  /\ ops' = ops + 1
  /\ ev' = NoEv
  /\ UNCHANGED <<log_level, clients, have_backtrace, vsnprintf_c99, tls, heap,
                 stderr_out, client_out, aborted, ub, last_set, last_get>>

\* A thread calls w_set_thread_name(fmt, arg).
AppSetName(t, in) ==
  /\ ~aborted /\ stack[t] = <<>> /\ ops < MaxOps
  /\ stack' = [stack EXCEPT ![t] =
       <<[Frame0 EXCEPT !.fn = "w_set_thread_name", !.pc = "free",
                        !.fmt = in.fmt, !.arg = in.arg]>>]
  /\ ops' = ops + 1
  /\ ev' = NoEv
  /\ UNCHANGED <<log_level, clients, have_backtrace, vsnprintf_c99, tls, heap,
                 stderr_out, client_out, entry_log, aborted, ub, last_set, last_get>>

\* A thread calls w_get_thread_name().
AppGetName(t) ==
  /\ ~aborted /\ stack[t] = <<>> /\ ops < MaxOps
  /\ stack' = [stack EXCEPT ![t] =
       <<[Frame0 EXCEPT !.fn = "w_get_thread_name", !.pc = "get"]>>]
  /\ ops' = ops + 1
  /\ ev' = NoEv
  /\ UNCHANGED <<log_level, clients, have_backtrace, vsnprintf_c99, tls, heap,
                 stderr_out, client_out, entry_log, aborted, ub, last_set, last_get>>

\* The kernel delivers a registered fault signal to thread t, whatever t is
\* executing; crash_handler runs on top of the interrupted code.  The
\* signal is blocked while its handler runs.
FaultSignal(t, signo, si) ==
  /\ ~aborted /\ ops < MaxOps
  /\ signo \in FaultSignals
  /\ ~InHandler(t)
  /\ stack' = [stack EXCEPT ![t] =
       <<[Frame0 EXCEPT !.fn = "crash_handler", !.pc = "decode",
                        !.signo = signo, !.si = si]>> \o @]
  /\ ops' = ops + 1
  /\ ev' = NoEv
  /\ UNCHANGED <<log_level, clients, have_backtrace, vsnprintf_c99, tls, heap,
                 stderr_out, client_out, entry_log, aborted, ub, last_set, last_get>>

\* Configuration code writes log_level, while no call is in progress.
SetLogLevel(l) ==
  /\ ~aborted /\ ops < MaxOps
  /\ \A t \in Threads : stack[t] = <<>>
  /\ l # log_level
  /\ log_level' = l
  /\ ops' = ops + 1
  /\ ev' = NoEv
  /\ UNCHANGED <<clients, have_backtrace, vsnprintf_c99, stack, tls, heap,
                 stderr_out, client_out, entry_log, aborted, ub, last_set, last_get>>

\* Clients subscribe or unsubscribe: the answers of w_should_log_to_clients
\* change.
ClientsChange(c) ==
  /\ ~aborted /\ ops < MaxOps
  /\ c # clients
  /\ clients' = c
  /\ ops' = ops + 1
  /\ ev' = NoEv
  /\ UNCHANGED <<log_level, have_backtrace, vsnprintf_c99, stack, tls, heap,
                 stderr_out, client_out, entry_log, aborted, ub, last_set, last_get>>

(* -------------------------------- w_log ------------------------------- *)

\* line 132: should_log_to_stderr
ShouldLogToStderr(level) == level <= log_level

\* line 133: should_log_to_clients, the answer of the external predicate
ShouldLogToClients(level) == clients[level]

\* As NobodyListening, with the negation lost.
NobodyListeningNegated(s2e, s2c) == s2e \/ s2c

\* line 135: nobody is listening
NobodyListening(s2e, s2c) == ~(s2e \/ s2c)

\* lines 140-143: a fatal call goes on as an error call that remembers it
\* was fatal.
Normalised(f) ==
  IF f.level = W_LOG_FATAL
  THEN [f EXCEPT !.level = W_LOG_ERR, !.fatal = TRUE]
  ELSE f

\* lines 132-143: the gates; the early return; the fatal flag.
LogGates(t) ==
  /\ At(t, "w_log", "gates")
  /\ LET f == [Top(t) EXCEPT
                 !.should_log_to_stderr = ShouldLogToStderr(Top(t).level),
                 !.should_log_to_clients = ShouldLogToClients(Top(t).level)]
     IN  IF NobodyListening(f.should_log_to_stderr, f.should_log_to_clients)
         THEN /\ Leave(t)
              /\ ev' = Returned(t, f, NULL, heap)
         ELSE /\ Goto(t, [Normalised(f) EXCEPT !.pc = "name"])
              /\ ev' = Gated(t, Normalised(f))
  /\ UNCHANGED <<log_level, clients, have_backtrace, vsnprintf_c99, tls, heap,
                 stderr_out, client_out, entry_log, aborted, ub, ops, last_set,
                 last_get>>

\* lines 145-154: the time of day is read and the arguments of snprintf are
\* evaluated: w_get_thread_name() is called.
LogName(t) ==
  /\ At(t, "w_log", "name")
  /\ Call(t, [Top(t) EXCEPT !.pc = "format"],
             [Frame0 EXCEPT !.fn = "w_get_thread_name", !.pc = "get"])
  /\ ev' = NoEv
  /\ UNCHANGED <<log_level, clients, have_backtrace, vsnprintf_c99, tls, heap,
                 stderr_out, client_out, entry_log, aborted, ub, ops, last_set,
                 last_get>>

\* The texts "%s" may read at the pointer p.  An absent name and a released
\* one are undefined behaviour: the text is "(null)", and for a released
\* string what it held or whatever the allocator left there.
NameTexts(p) ==
  IF p = NULL THEN {<<"(null)">>}
  ELSE IF heap[p].st = "live" THEN {heap[p].str}
  ELSE {heap[p].str, <<GARBAGE>>}

NameUb(p) ==
  IF p = NULL THEN {"null name"}
  ELSE IF heap[p].st # "live" THEN {"released name"} ELSE {}

\* lines 153-174: the line is formatted into buf.
LogFormat(t) ==
  /\ At(t, "w_log", "format")
  /\ \E txt \in NameTexts(Top(t).rv) :
       LET f == Top(t)
           r == FormatLine(txt, f.body, vsnprintf_c99)
       IN  /\ Goto(t, [f EXCEPT !.buf = r.buf, !.len = r.len, !.pc = "stderr",
                                !.tname = txt])
           /\ ub' = ub \cup NameUb(f.rv) \cup (IF r.oob THEN {"buf overrun"} ELSE {})
  /\ ev' = NoEv
  /\ UNCHANGED <<log_level, clients, have_backtrace, vsnprintf_c99, tls, heap,
                 stderr_out, client_out, entry_log, aborted, ops, last_set,
                 last_get>>

\* As Written, with a length one short: the last cell of the line is not
\* written.
WrittenButLast(f) == [i \in 1..(f.len - 1) |-> Cell(f.buf, i - 1)]

\* write(STDERR_FILENO, buf, len): the first len cells of buf.
Written(f) == [i \in 1..f.len |-> Cell(f.buf, i - 1)]

\* As StderrWanted, with the test lost.
StderrAlways(f) == TRUE

\* line 176
StderrWanted(f) == f.should_log_to_stderr

\* lines 176-178: one write() of the line to standard error.
LogStderr(t) ==
  /\ At(t, "w_log", "stderr")
  /\ LET f == Top(t)
     IN  /\ stderr_out' = IF StderrWanted(f)
                          THEN Append(stderr_out,
                                 [cid |-> f.cid, t |-> t, line |-> Written(f)])
                          ELSE stderr_out
         /\ Goto(t, [f EXCEPT !.pc = "clients"])
  /\ ev' = NoEv
  /\ UNCHANGED <<log_level, clients, have_backtrace, vsnprintf_c99, tls, heap,
                 client_out, entry_log, aborted, ub, ops, last_set, last_get>>

\* As ClientsWanted, with the push left out.
ClientsNever(f) == FALSE

\* line 180
ClientsWanted(f) == f.should_log_to_clients

\* As ClientLevel, with the severity the caller passed.
ClientLevelOriginal(f) == IF f.fatal THEN W_LOG_FATAL ELSE f.level

\* line 181: the severity handed to w_log_to_clients
ClientLevel(f) == f.level

\* lines 180-182: the line is handed to the client sink.
LogClients(t) ==
  /\ At(t, "w_log", "clients")
  /\ LET f == Top(t)
     IN  /\ client_out' = IF ClientsWanted(f)
                          THEN Append(client_out,
                                 [cid |-> f.cid, t |-> t, level |-> ClientLevel(f),
                                  line |-> Text(f.buf)])
                          ELSE client_out
         /\ Goto(t, [f EXCEPT !.pc = "fatal"])
  /\ ev' = NoEv
  /\ UNCHANGED <<log_level, clients, have_backtrace, vsnprintf_c99, tls, heap,
                 stderr_out, entry_log, aborted, ub, ops, last_set, last_get>>

\* lines 184-185 and 188: a fatal call goes on to log_stack_trace(), any
\* other call returns.
LogFatal(t) ==
  /\ At(t, "w_log", "fatal")
  /\ LET f == Top(t)
     IN  IF f.fatal
         THEN /\ Call(t, [f EXCEPT !.pc = "abort"],
                         [Frame0 EXCEPT !.fn = "log_stack_trace", !.pc = "capture",
                                        !.cid = f.cid])
              /\ ev' = NoEv
         ELSE /\ Leave(t)
              /\ ev' = Returned(t, f, NULL, heap)
  /\ UNCHANGED <<log_level, clients, have_backtrace, vsnprintf_c99, tls, heap,
                 stderr_out, client_out, entry_log, aborted, ub, ops, last_set,
                 last_get>>

\* line 186: abort() ends the process; no thread takes another step.
LogAbort(t) ==
  /\ At(t, "w_log", "abort")
  /\ aborted' = TRUE
  /\ ev' = [kind |-> "abort", t |-> t, f |-> Top(t), app |-> ByApp(t),
            val |-> NULL, str |-> <<>>, prev |-> NULL]
  /\ UNCHANGED <<log_level, clients, have_backtrace, vsnprintf_c99, stack, tls,
                 heap, stderr_out, client_out, entry_log, ub, ops, last_set,
                 last_get>>

(* --------------------------- log_stack_trace --------------------------- *)

\* lines 8-15: without backtrace support the body is empty; with it
\* backtrace() captures size frames, at most the capacity of array.
TraceCapture(t) ==
  /\ At(t, "log_stack_trace", "capture")
  /\ IF have_backtrace
     THEN /\ \E n \in 0..MaxFrames : Goto(t, [Top(t) EXCEPT !.size = n, !.pc = "header"])
          /\ ev' = NoEv
     ELSE /\ Leave(t)
          /\ ev' = Returned(t, Top(t), NULL, heap)
  /\ UNCHANGED <<log_level, clients, have_backtrace, vsnprintf_c99, tls, heap,
                 stderr_out, client_out, entry_log, aborted, ub, ops, last_set,
                 last_get>>

\* line 16: the header goes through w_log at error severity.
TraceHeader(t) ==
  /\ At(t, "log_stack_trace", "header")
  /\ Call(t, [Top(t) EXCEPT !.pc = "frames", !.i = 0], LogFrame(W_LOG_ERR, HeaderLine))
  /\ Entered(t, W_LOG_ERR, HeaderLine, "log_stack_trace", Top(t).cid)
  /\ ev' = NoEv
  /\ UNCHANGED <<log_level, clients, have_backtrace, vsnprintf_c99, tls, heap,
                 stderr_out, client_out, aborted, ub, ops, last_set, last_get>>

\* lines 18-22: one w_log call per captured frame, in capture order; then
\* the symbols are released and the function returns.
TraceFrames(t) ==
  /\ At(t, "log_stack_trace", "frames")
  /\ LET f == Top(t)
     IN  IF f.i < f.size
         THEN /\ Call(t, [f EXCEPT !.i = f.i + 1], LogFrame(W_LOG_ERR, FrameLine(f.i)))
              /\ Entered(t, W_LOG_ERR, FrameLine(f.i), "log_stack_trace", f.cid)
              /\ ev' = NoEv
         ELSE /\ Leave(t)
              /\ ev' = Returned(t, f, NULL, heap)
              /\ UNCHANGED entry_log
  /\ UNCHANGED <<log_level, clients, have_backtrace, vsnprintf_c99, tls, heap,
                 stderr_out, client_out, aborted, ub, ops, last_set, last_get>>

(* ---------------------------- crash_handler ---------------------------- *)

\* lines 31-75: the reason is decoded from the fault-info record.
CrashDecode(t) ==
  /\ At(t, "crash_handler", "decode")
  /\ Goto(t, [Top(t) EXCEPT !.reason = Reason(Top(t).si), !.pc = "log"])
  /\ ev' = NoEv
  /\ UNCHANGED <<log_level, clients, have_backtrace, vsnprintf_c99, tls, heap,
                 stderr_out, client_out, entry_log, aborted, ub, ops, last_set,
                 last_get>>

\* lines 76-77: the fatal log call.
CrashLog(t) ==
  /\ At(t, "crash_handler", "log")
  /\ LET f == Top(t)
         body == CrashMessage(f.signo, f.reason)
     IN  /\ Call(t, [f EXCEPT !.pc = "ret"], LogFrame(W_LOG_FATAL, body))
         /\ Entered(t, W_LOG_FATAL, body, "crash_handler", 0)
  /\ ev' = NoEv
  /\ UNCHANGED <<log_level, clients, have_backtrace, vsnprintf_c99, tls, heap,
                 stderr_out, client_out, aborted, ub, ops, last_set, last_get>>

\* line 78: w_log returned, so the handler returns and the interrupted code
\* goes on.
CrashReturn(t) ==
  /\ At(t, "crash_handler", "ret")
  /\ Leave(t)
  /\ ev' = Returned(t, Top(t), NULL, heap)
  /\ UNCHANGED <<log_level, clients, have_backtrace, vsnprintf_c99, tls, heap,
                 stderr_out, client_out, entry_log, aborted, ub, ops, last_set,
                 last_get>>

(* ------------------------ the thread name registry --------------------- *)

\* As NameSlot, with one slot for the whole process.
NameSlotShared(t) == 1

\* thread_name_key, lines 99, 104, 114, 118: the slot pthread_getspecific and
\* pthread_setspecific give the calling thread is the thread's own.
NameSlot(t) == t

\* lines 104-108: the name in the thread's slot, or the default name set
\* through w_set_thread_name.
GetName(t) ==
  /\ At(t, "w_get_thread_name", "get")
  /\ LET name == tls[NameSlot(t)]
     IN  IF name # NULL
         THEN /\ LeaveWith(t, name)
              /\ ev' = Returned(t, [Top(t) EXCEPT !.name = name], name, heap)
              /\ last_get' = IF ByApp(t) THEN [last_get EXCEPT ![t] = name] ELSE last_get
         ELSE /\ Call(t, [Top(t) EXCEPT !.pc = "ret"],
                         [Frame0 EXCEPT !.fn = "w_set_thread_name", !.pc = "free",
                                        !.fmt = DefaultFmt, !.arg = PthreadSelf(t)])
              /\ ev' = NoEv
              /\ UNCHANGED last_get
  /\ UNCHANGED <<log_level, clients, have_backtrace, vsnprintf_c99, tls, heap,
                 stderr_out, client_out, entry_log, aborted, ub, ops, last_set>>

\* line 108: what w_set_thread_name returned is returned.
GetNameRet(t) ==
  /\ At(t, "w_get_thread_name", "ret")
  /\ LeaveWith(t, Top(t).rv)
  /\ ev' = Returned(t, Top(t), Top(t).rv, heap)
  /\ last_get' = IF ByApp(t) THEN [last_get EXCEPT ![t] = Top(t).rv] ELSE last_get
  /\ UNCHANGED <<log_level, clients, have_backtrace, vsnprintf_c99, tls, heap,
                 stderr_out, client_out, entry_log, aborted, ub, ops, last_set>>

\* free(p): the string at p is released; free(NULL) does nothing.
Freed(h, p) == IF p = NULL THEN h ELSE [h EXCEPT ![p].st = "released"]

\* line 114: the string in the thread's slot is released; the slot still
\* holds its address.
SetFree(t) ==
  /\ At(t, "w_set_thread_name", "free")
  /\ heap' = Freed(heap, tls[NameSlot(t)])
  /\ ub' = IF tls[NameSlot(t)] # NULL /\ heap[tls[NameSlot(t)]].st # "live"
           THEN ub \cup {"double free"} ELSE ub
  /\ Goto(t, [Top(t) EXCEPT !.pc = "render"])
  /\ ev' = NoEv
  /\ UNCHANGED <<log_level, clients, have_backtrace, vsnprintf_c99, tls,
                 stderr_out, client_out, entry_log, aborted, ops, last_set, last_get>>

\* The addresses malloc may hand out: a released block, or the next block
\* never handed out.
Allocatable ==
  {a \in Addrs : heap[a].st = "released"} \cup
  {a \in Addrs : heap[a].st = "unused" /\ \A b \in 1..(a - 1) : heap[b].st # "unused"}

\* lines 112-117: vasprintf renders the name into a fresh string; when it
\* fails (its result is not looked at) name stays the NULL of line 112.
SetRender(t) ==
  /\ At(t, "w_set_thread_name", "render")
  /\ LET f == Top(t)
     IN  \/ \E a \in Allocatable :
              /\ heap' = [heap EXCEPT ![a] = [st |-> "live", str |-> Render(f.fmt, f.arg)]]
              /\ Goto(t, [f EXCEPT !.name = a, !.pc = "install"])
         \/ /\ heap' = heap
            /\ Goto(t, [f EXCEPT !.name = NULL, !.pc = "install"])
  /\ ev' = NoEv
  /\ UNCHANGED <<log_level, clients, have_backtrace, vsnprintf_c99, tls,
                 stderr_out, client_out, entry_log, aborted, ub, ops, last_set,
                 last_get>>

\* As SlotValue, with the new name lost.
SlotValueLost(f) == NULL

\* line 118: the value pthread_setspecific stores in the slot
SlotValue(f) == f.name

\* lines 118-119: the slot takes the new name, which is returned.
SetInstall(t) ==
  /\ At(t, "w_set_thread_name", "install")
  /\ LET f == Top(t)
     IN  /\ tls' = [tls EXCEPT ![NameSlot(t)] = SlotValue(f)]
         /\ LeaveWith(t, f.name)
         /\ ev' = Returned(t, f, f.name, heap)
         /\ last_set' = IF ByApp(t)
                        THEN [last_set EXCEPT ![t] =
                                [set |-> TRUE, ok |-> f.name # NULL,
                                 fmt |-> f.fmt, arg |-> f.arg]]
                        ELSE last_set
         /\ last_get' = IF ByApp(t) THEN [last_get EXCEPT ![t] = NULL] ELSE last_get
  /\ UNCHANGED <<log_level, clients, have_backtrace, vsnprintf_c99, heap,
                 stderr_out, client_out, entry_log, aborted, ub, ops>>

(* --------------------------- the specifications ------------------------ *)

\* One step of a call in progress on thread t.
Step(t) ==
  \/ LogGates(t)
  \/ LogName(t)
  \/ LogFormat(t)
  \/ LogStderr(t)
  \/ LogClients(t)
  \/ LogFatal(t)
  \/ LogAbort(t)
  \/ TraceCapture(t)
  \/ TraceHeader(t)
  \/ TraceFrames(t)
  \/ CrashDecode(t)
  \/ CrashLog(t)
  \/ CrashReturn(t)
  \/ GetName(t)
  \/ GetNameRet(t)
  \/ SetFree(t)
  \/ SetRender(t)
  \/ SetInstall(t)

\* The calls of one thread of the daemon, the faults delivered to it, and
\* the configuration around it.
Next ==
  \/ \E l \in Severities, b \in Bodies : AppLog(1, l, b)
  \/ \E in \in NameInputs : AppSetName(1, in)
  \/ AppGetName(1)
  \/ \E x \in FaultInputs : FaultSignal(1, x[1], x[2])
  \/ \E l \in LogLevels : SetLogLevel(l)
  \/ \E c \in [Severities -> BOOLEAN] : ClientsChange(c)
  \/ Step(1)

Spec == Init /\ [][Next]_vars

\* The line formatter on its own: a thread whose name was set to any name
\* of up to MaxName tokens has called w_log at error severity with any body
\* of up to MaxBody tokens, and the call runs to its end.
MaxName == 5
MaxBody == 4

FmtNames == { Fill("n", k) : k \in 0..MaxName }
FmtBodies == UNION { [1..k -> {"a", NL}] : k \in 0..MaxBody }

InitFmt ==
  /\ log_level = W_LOG_ERR
  /\ clients \in { [l \in Severities |-> FALSE], [l \in Severities |-> TRUE] }
  /\ have_backtrace = TRUE
  /\ vsnprintf_c99 \in BOOLEAN
  /\ \E name \in FmtNames, body \in FmtBodies :
       /\ stack = [t \in Threads |->
                     IF t = 1
                     THEN <<[Frame0 EXCEPT !.fn = "w_log", !.pc = "gates", !.cid = 1,
                                           !.level = W_LOG_ERR, !.body = body]>>
                     ELSE <<>>]
       /\ heap = [a \in Addrs |-> IF a = 1 THEN [st |-> "live", str |-> name] ELSE NoCell]
       /\ entry_log = <<[cid |-> 1, t |-> 1, level |-> W_LOG_ERR, body |-> body,
                         by |-> "app", parent |-> 0]>>
       /\ last_set = [t \in Threads |->
                        IF t = 1 THEN [set |-> TRUE, ok |-> TRUE, fmt |-> name, arg |-> 0]
                        ELSE NeverSet]
  /\ tls = [t \in Threads |-> IF t = 1 THEN 1 ELSE NULL]
  /\ stderr_out = <<>>
  /\ client_out = <<>>
  /\ aborted = FALSE
  /\ ub = {}
  /\ ops = MaxOps
  /\ ev = NoEv
  /\ last_get = [t \in Threads |-> NULL]

NextFmt ==
  \/ LogGates(1)
  \/ LogName(1)
  \/ GetName(1)
  \/ LogFormat(1)
  \/ LogStderr(1)
  \/ LogClients(1)
  \/ LogFatal(1)

SpecFmt == InitFmt /\ [][NextFmt]_vars

\* The fault decoder on its own: crash_handler has just been entered on
\* thread 1, for any signal and any fault-info record of DecodeInputs, under
\* any log level, and runs to its end.  NamedCodes are the sub-codes of a
\* signal that crash_handler names, OtherCodes some that it does not name.
NamedCodes(signo) ==
  CASE signo = "SIGILL" ->
         {"ILL_ILLOPC", "ILL_ILLOPN", "ILL_ILLADR", "ILL_ILLTRP", "ILL_PRVOPC",
          "ILL_PRVREG", "ILL_COPROC", "ILL_BADSTK"}
    [] signo = "SIGFPE" ->
         {"FPE_INTDIV", "FPE_INTOVF", "FPE_FLTDIV", "FPE_FLTOVF", "FPE_FLTUND",
          "FPE_FLTRES", "FPE_FLTINV", "FPE_FLTSUB"}
    [] signo = "SIGSEGV" -> {"SEGV_MAPERR", "SEGV_ACCERR"}
    [] signo = "SIGBUS" -> {"BUS_ADRALN", "BUS_ADRERR"}
    [] OTHER -> {}

OtherCodes(signo) ==
  {"SI_USER", "SI_KERNEL"} \cup
  (CASE signo = "SIGBUS" -> {"BUS_OBJERR"}
     [] signo = "SIGSEGV" -> {"SEGV_BNDERR"}
     [] signo = "SIGTRAP" -> {"TRAP_BRKPT"}
     [] OTHER -> {})

\* The signals the decoder is applied to: the registered ones and one it
\* has no case for.
DecodeSignals == FaultSignals \cup {"SIGTRAP"}

DecodeInputs ==
  { <<g, NoInfo>> : g \in DecodeSignals } \cup
  UNION { { <<g, Info(g, c)>> : c \in NamedCodes(g) \cup OtherCodes(g) } : g \in DecodeSignals }

InitDec ==
  /\ log_level \in LogLevels
  /\ clients = [l \in Severities |-> FALSE]
  /\ have_backtrace \in BOOLEAN
  /\ vsnprintf_c99 = TRUE
  /\ \E x \in DecodeInputs :
       stack = [t \in Threads |->
                  IF t = 1
                  THEN <<[Frame0 EXCEPT !.fn = "crash_handler", !.pc = "decode",
                                        !.signo = x[1], !.si = x[2]]>>
                  ELSE <<>>]
  /\ tls = [t \in Threads |-> NULL]
  /\ heap = [a \in Addrs |-> NoCell]
  /\ stderr_out = <<>>
  /\ client_out = <<>>
  /\ entry_log = <<>>
  /\ aborted = FALSE
  /\ ub = {}
  /\ ops = MaxOps
  /\ ev = NoEv
  /\ last_set = [t \in Threads |-> NeverSet]
  /\ last_get = [t \in Threads |-> NULL]

NextDec == Step(1)

SpecDec == InitDec /\ [][NextDec]_vars

\* A thread that already has its default name installed (as after a first
\* w_get_thread_name), its calls and the faults delivered to it.
InitSig ==
  /\ log_level = W_LOG_ERR
  /\ clients = [l \in Severities |-> FALSE]
  /\ have_backtrace \in BOOLEAN
  /\ vsnprintf_c99 \in BOOLEAN
  /\ stack = [t \in Threads |-> <<>>]
  /\ tls = [t \in Threads |-> IF t = 1 THEN 1 ELSE NULL]
  /\ heap = [a \in Addrs |->
              IF a = 1 THEN [st |-> "live", str |-> DefaultName(1)] ELSE NoCell]
  /\ stderr_out = <<>>
  /\ client_out = <<>>
  /\ entry_log = <<>>
  /\ aborted = FALSE
  /\ ub = {}
  /\ ops = 0
  /\ ev = NoEv
  /\ last_set = [t \in Threads |-> NeverSet]
  /\ last_get = [t \in Threads |-> NULL]

SpecSig == InitSig /\ [][Next]_vars

\* Several threads of the daemon: each thread logs, sets its name and asks
\* for its name, and the steps of the threads' calls interleave in every
\* order.  The configuration is fixed before the threads start; the threads
\* start without names, or each with its default name installed (as after a
\* first w_get_thread_name).
MTLevels == {W_LOG_ERR, W_LOG_DBG}
MTBodies == Bodies
MTNames == { [fmt |-> <<"worker-", "%d">>, arg |-> 7] }

InitMT ==
  /\ log_level = W_LOG_ERR
  /\ clients \in { [l \in Severities |-> FALSE], [l \in Severities |-> TRUE] }
  /\ have_backtrace = TRUE
  /\ vsnprintf_c99 \in BOOLEAN
  /\ stack = [t \in Threads |-> <<>>]
  /\ \E named \in BOOLEAN :
       /\ tls = [t \in Threads |-> IF named THEN t ELSE NULL]
       /\ heap = [a \in Addrs |->
                   IF named /\ a \in Threads
                   THEN [st |-> "live", str |-> DefaultName(a)] ELSE NoCell]
  /\ stderr_out = <<>>
  /\ client_out = <<>>
  /\ entry_log = <<>>
  /\ aborted = FALSE
  /\ ub = {}
  /\ ops = 0
  /\ ev = NoEv
  /\ last_set = [t \in Threads |-> NeverSet]
  /\ last_get = [t \in Threads |-> NULL]

NextMT ==
  \E t \in Threads :
     \/ \E l \in MTLevels, b \in MTBodies : AppLog(t, l, b)
     \/ \E in \in MTNames : AppSetName(t, in)
     \/ AppGetName(t)
     \/ LogGates(t)
     \/ LogName(t)
     \/ LogFormat(t)
     \/ LogStderr(t)
     \/ LogClients(t)
     \/ LogFatal(t)
     \/ GetName(t)
     \/ GetNameRet(t)
     \/ SetFree(t)
     \/ SetRender(t)
     \/ SetInstall(t)

SpecMT == InitMT /\ [][NextMT]_vars

(* ------------------------------- claims -------------------------------- *)

\* The severity the caller passed to the w_log call with frame f.
OrigLevel(f) == entry_log[f.cid].level

\* A w_log call returned to its caller, with frame f.
LogReturned == ev.kind = "return" /\ ev.f.fn = "w_log"

\* The gates of a w_log call were just evaluated (the call went on, or
\* returned because nobody listens).
GatesEvaluated ==
  \/ ev.kind = "gated"
  \/ LogReturned /\ ev.f.pc = "gates"

\* The write() calls and the client pushes of the call cid.
StderrOf(cid) == SelectSeq(stderr_out, LAMBDA r : r.cid = cid)
ClientOf(cid) == SelectSeq(client_out, LAMBDA r : r.cid = cid)

\* The w_log calls log_stack_trace made for the fatal call cid.
TraceOf(cid) == SelectSeq(entry_log, LAMBDA r : r.by = "log_stack_trace" /\ r.parent = cid)

\* C1: a w_log call with fatal severity never returns to its caller,
\* whatever log_level is and whatever w_should_log_to_clients answers.
C1_FatalCallNeverReturns ==
  ~(LogReturned /\ OrigLevel(ev.f) = W_LOG_FATAL)

\* C2: crash_handler never returns to the code the fault signal interrupted:
\* its one fatal log call ends the process.
C2_HandlerNeverReturns ==
  ~(ev.kind = "return" /\ ev.f.fn = "crash_handler")

\* C3: a w_log call whose severity is above log_level and that no client
\* wants returns at once: in the step that evaluates the gates the call
\* returns, nothing is formatted, nothing is written to standard error or
\* pushed to the clients, and no other state of the logger changes.
C3_ClosedGatesNoEffect ==
  [][\A t \in Threads :
       ( /\ At(t, "w_log", "gates")
         /\ Top(t).level > log_level
         /\ ~clients[Top(t).level]
         /\ stack'[t] # stack[t]
         /\ Len(stack'[t]) <= Len(stack[t]) )
       => /\ stack'[t] = Tail(stack[t])
          /\ ev'.kind = "return" /\ ev'.f.buf = FreshBuf
          /\ UNCHANGED <<stderr_out, client_out, tls, heap, aborted, ub,
                         entry_log, log_level, clients>>]_vars

C3_Witness ==
  /\ LogReturned /\ ev.f.pc = "gates"
  /\ OrigLevel(ev.f) > log_level /\ ~clients[OrigLevel(ev.f)]

\* The sinks of the w_log call with frame f were serviced as its gates say:
\* one write() of the line's len cells if and only if the stderr gate
\* passed, one push of the line if and only if the client gate passed.
Serviced(f) ==
  /\ Len(StderrOf(f.cid)) = (IF f.should_log_to_stderr THEN 1 ELSE 0)
  /\ Len(ClientOf(f.cid)) = (IF f.should_log_to_clients THEN 1 ELSE 0)
  /\ \A k \in 1..Len(StderrOf(f.cid)) : StderrOf(f.cid)[k].line = Written(f)
  /\ \A k \in 1..Len(ClientOf(f.cid)) : ClientOf(f.cid)[k].line = Text(f.buf)

\* C4: the stderr gate of a call is (severity <= log_level), its client gate
\* is the answer of w_should_log_to_clients for the severity, and a call
\* that passed a gate and has serviced its sinks has written its line to
\* standard error exactly when the stderr gate passed and has pushed it to
\* the clients exactly when the client gate passed.
C4_SinksFollowGates ==
  /\ GatesEvaluated =>
       /\ ev.f.should_log_to_stderr = (OrigLevel(ev.f) <= log_level)
       /\ ev.f.should_log_to_clients = clients[OrigLevel(ev.f)]
  /\ \A t \in Threads : \A k \in 1..Len(stack[t]) :
       (stack[t][k].fn = "w_log" /\ stack[t][k].pc \in {"fatal", "abort"})
       => Serviced(stack[t][k])
  /\ (LogReturned /\ ev.f.pc = "fatal") => Serviced(ev.f)

\* A call only the clients wanted has been pushed and not written.
C4_Witness ==
  /\ LogReturned /\ ev.f.pc = "fatal"
  /\ ~ev.f.should_log_to_stderr /\ ev.f.should_log_to_clients
  /\ Len(ClientOf(ev.f.cid)) = 1 /\ Len(StderrOf(ev.f.cid)) = 0

\* C5: a fatal call passes the stderr gate and the client gate exactly when
\* an error call made in the same state would.
C5_FatalGatedAsError ==
  (GatesEvaluated /\ OrigLevel(ev.f) = W_LOG_FATAL) =>
     /\ ev.f.should_log_to_stderr = (W_LOG_ERR <= log_level)
     /\ ev.f.should_log_to_clients = clients[W_LOG_ERR]

\* C6 as claimed: the severity pushed to the clients with a line is the
\* severity the caller passed, fatal included.
C6_ClientGetsOriginalSeverity ==
  \A k \in 1..Len(client_out) :
     client_out[k].level = entry_log[client_out[k].cid].level

\* C6 as amended: the severity pushed to the clients with a line is the
\* severity the caller passed, except that a fatal call pushes error
\* severity.
C6_ClientGetsNormalisedSeverity ==
  \A k \in 1..Len(client_out) :
     LET orig == entry_log[client_out[k].cid].level
     IN  client_out[k].level = (IF orig = W_LOG_FATAL THEN W_LOG_ERR ELSE orig)

C6_Witness ==
  \E k \in 1..Len(client_out) :
     /\ entry_log[client_out[k].cid].level = W_LOG_FATAL
     /\ client_out[k].level = W_LOG_ERR

\* The lines of a trace of n frames: the header, then the frames in capture
\* order.
TraceLines(n) == <<HeaderLine>> \o [i \in 1..n |-> FrameLine(i - 1)]

\* C7: where stack capture is supported, a fatal w_log call ends in abort()
\* after log_stack_trace has passed to w_log, at error severity, the header
\* line and then one line per captured frame in capture order; it never
\* ends otherwise.
C7_FatalCallTracesThenAborts ==
  ((LogReturned \/ ev.kind = "abort") /\ OrigLevel(ev.f) = W_LOG_FATAL /\ have_backtrace)
  => /\ ev.kind = "abort"
     /\ \E n \in 0..MaxFrames :
          /\ Len(TraceOf(ev.f.cid)) = n + 1
          /\ \A k \in 1..(n + 1) :
               /\ TraceOf(ev.f.cid)[k].body = TraceLines(n)[k]
               /\ TraceOf(ev.f.cid)[k].level = W_LOG_ERR

\* The part of C7 that holds of the code: a fatal call that passed a gate
\* ends in abort() with the header and the frames traced.
FatalPathTracesThenAborts ==
  ((LogReturned \/ ev.kind = "abort") /\ ev.f.fatal /\ have_backtrace)
  => /\ ev.kind = "abort"
     /\ \E n \in 0..MaxFrames :
          /\ Len(TraceOf(ev.f.cid)) = n + 1
          /\ \A k \in 1..(n + 1) :
               /\ TraceOf(ev.f.cid)[k].body = TraceLines(n)[k]
               /\ TraceOf(ev.f.cid)[k].level = W_LOG_ERR

\* The line a w_log call has formatted: the text of its buffer.  The calls
\* past the formatting step, with the prefix and the body they were given.
Formatted(f) == f.fn = "w_log" /\ f.pc \in {"stderr", "clients", "fatal", "abort"}
EndsInNewline(s) == Len(s) > 0 /\ s[Len(s)] = NL
Fits(f) == Len(Prefix(f.tname)) + Len(f.body) <= BufSize - 1

\* C8 as claimed: in a line whose prefix and body fit the buffer the
\* complete body stands behind the prefix, no token of it lost or
\* overwritten, also when prefix and body fill the buffer to its last
\* usable position, and the line ends in a newline.
C8_FittingBodyIsComplete ==
  \A t \in Threads : \A k \in 1..Len(stack[t]) :
     LET f == stack[t][k]
         p == Len(Prefix(f.tname))
     IN  (Formatted(f) /\ Fits(f)) =>
            /\ SubSeq(Text(f.buf), p + 1, p + Len(f.body)) = f.body
            /\ EndsInNewline(Text(f.buf))

\* C8 as amended: a line whose prefix and body fit the buffer is the prefix
\* followed by the complete body, with a newline appended unless the body
\* ends in one, except when prefix and body fill the buffer to its last
\* usable position and do not end in a newline: then the newline replaces
\* the last token (of the body, or of the prefix when the body is empty).
\* The length handed to write() is the length of the line.
C8_FittingLine ==
  \A t \in Threads : \A k \in 1..Len(stack[t]) :
     LET f == stack[t][k]
         whole == Prefix(f.tname) \o f.body
     IN  (Formatted(f) /\ Fits(f)) =>
            /\ Text(f.buf) =
                 IF EndsInNewline(f.body) THEN whole
                 ELSE IF Len(whole) < BufSize - 1 THEN whole \o <<NL>>
                 ELSE Take(whole, BufSize - 2) \o <<NL>>
            /\ f.len = Len(Text(f.buf))

\* A line is formatted whose prefix and body fill the buffer exactly and do
\* not end in a newline.
C8_Witness ==
  \E t \in Threads : \E k \in 1..Len(stack[t]) :
     LET f == stack[t][k]
     IN  /\ Formatted(f)
         /\ Len(Prefix(f.tname)) + Len(f.body) = BufSize - 1
         /\ Len(f.body) > 0 /\ ~EndsInNewline(f.body)
         /\ Text(f.buf) = Take(Prefix(f.tname) \o f.body, BufSize - 2) \o <<NL>>

\* s is a proper beginning of b.
TruncationOf(s, b) == Len(s) < Len(b) /\ s = Take(b, Len(s))

\* C9: a line whose prefix and body do not fit the buffer keeps the whole
\* prefix and a truncated body, is NUL-terminated inside the buffer, is at
\* most BufSize - 1 long, and ends in one newline: the last token of the
\* truncated body, or a newline put in place of it.
C9_LongLineKeepsPrefix ==
  \A t \in Threads : \A k \in 1..Len(stack[t]) :
     LET f == stack[t][k]
         pre == Prefix(f.tname)
         line == Text(f.buf)
         kept == SubSeq(line, Len(pre) + 1, Len(line))
     IN  (Formatted(f) /\ ~Fits(f)) =>
            /\ \E i \in Cells : f.buf[i] = NUL
            /\ Len(line) <= BufSize - 1
            /\ EndsInNewline(line)
            /\ Len(line) > Len(pre)
            /\ Take(line, Len(pre)) = pre
            /\ \/ TruncationOf(kept, f.body)
               \/ TruncationOf(Take(kept, Len(kept) - 1), f.body)

\* The part of C9 that holds of the code: with a prefix that leaves room
\* for a token of the body, the long line is as C9_LongLineKeepsPrefix says.
LongLineWithShortPrefix ==
  \A t \in Threads : \A k \in 1..Len(stack[t]) :
     LET f == stack[t][k]
         pre == Prefix(f.tname)
         line == Text(f.buf)
         kept == SubSeq(line, Len(pre) + 1, Len(line))
     IN  (Formatted(f) /\ ~Fits(f) /\ Len(pre) < BufSize - 1) =>
            /\ \E i \in Cells : f.buf[i] = NUL
            /\ Len(line) = BufSize - 1
            /\ EndsInNewline(line)
            /\ Take(line, Len(pre)) = pre
            /\ \/ TruncationOf(kept, f.body)
               \/ TruncationOf(Take(kept, Len(kept) - 1), f.body)

\* A w_get_thread_name call of the application returned.
GetReturned == ev.kind = "return" /\ ev.f.fn = "w_get_thread_name" /\ ev.app

ReasonTable ==
  { <<"SIGILL", "ILL_ILLOPC", "illegal opcode">>,
    <<"SIGILL", "ILL_ILLOPN", "illegal operand">>,
    <<"SIGILL", "ILL_ILLADR", "illegal addressing mode">>,
    <<"SIGILL", "ILL_ILLTRP", "illegal trap">>,
    <<"SIGILL", "ILL_PRVOPC", "privileged opcode">>,
    <<"SIGILL", "ILL_PRVREG", "privileged register">>,
    <<"SIGILL", "ILL_COPROC", "co-processor error">>,
    <<"SIGILL", "ILL_BADSTK", "internal stack error">>,
    <<"SIGFPE", "FPE_INTDIV", "integer divide by zero">>,
    <<"SIGFPE", "FPE_INTOVF", "integer overflow">>,
    <<"SIGFPE", "FPE_FLTDIV", "floating point divide by zero">>,
    <<"SIGFPE", "FPE_FLTOVF", "floating point overflow">>,
    <<"SIGFPE", "FPE_FLTUND", "floating point underflow">>,
    <<"SIGFPE", "FPE_FLTRES", "floating point inexact result">>,
    <<"SIGFPE", "FPE_FLTINV", "invalid floating point operation">>,
    <<"SIGFPE", "FPE_FLTSUB", "subscript out of range">>,
    <<"SIGSEGV", "SEGV_MAPERR", "address not mapped to object">>,
    <<"SIGSEGV", "SEGV_ACCERR", "invalid permissions for mapped object">>,
    <<"SIGBUS", "BUS_ADRALN", "invalid address alignment">>,
    <<"SIGBUS", "BUS_ADRERR", "non-existent physical address">> }

\* The reasons the table gives for the record si: one for a named pair,
\* none otherwise.
TableReasons(si) ==
  IF si.present THEN {r[3] : r \in {x \in ReasonTable : x[1] = si.si_signo /\ x[2] = si.si_code}}
  ELSE {}

\* The crash_handler frames that have decoded their fault, and those that
\* have made their log call.
Decoded(f) == f.fn = "crash_handler" /\ f.pc \in {"log", "ret"}
CrashCalls == SelectSeq(entry_log, LAMBDA r : r.by = "crash_handler")

\* C11: every named pair of signal and sub-code has its own reason in the
\* table, and the handler decodes a fault to the table's reason for its
\* pair, and to the empty reason for a sub-code or signal that is not named
\* and for an absent fault-info record; in each case the handler then makes
\* its one fatal log call, whose message carries the signal and the reason.
C11_ReasonIsDecoded ==
  /\ \A x, y \in ReasonTable : (x[1] = y[1] /\ x[3] = y[3]) => x = y
  /\ \A x \in ReasonTable : x[3] # "" /\ x[2] \in NamedCodes(x[1])
  /\ \A t \in Threads : \A k \in 1..Len(stack[t]) :
       LET f == stack[t][k]
       IN  /\ Decoded(f) =>
                IF TableReasons(f.si) # {} THEN TableReasons(f.si) = {f.reason}
                ELSE f.reason = ""
           /\ (f.fn = "crash_handler" /\ f.pc = "ret") =>
                /\ Len(CrashCalls) = 1
                /\ CrashCalls[1].level = W_LOG_FATAL
                /\ CrashCalls[1].body = <<f.signo, f.reason, NL>>

\* A segmentation fault at an unmapped address has been decoded and logged.
C11_Witness ==
  \E t \in Threads : \E k \in 1..Len(stack[t]) :
     LET f == stack[t][k]
     IN  /\ f.fn = "crash_handler" /\ f.pc = "ret"
         /\ f.si = Info("SIGSEGV", "SEGV_MAPERR")
         /\ CrashCalls[1].body = <<"SIGSEGV", "address not mapped to object", NL>>

\* The w_log calls that are past their write to standard error, or have
\* just returned from beyond it.
PastStderr(f) == f.fn = "w_log" /\ f.pc \in {"clients", "fatal", "abort"}

\* The call with frame f has written to standard error as C12 says: not at
\* all if its stderr gate was closed, else by one write() whose bytes are
\* the whole line, newline included.
WroteWholeLine(f) ==
  /\ Len(StderrOf(f.cid)) = (IF f.should_log_to_stderr THEN 1 ELSE 0)
  /\ \A k \in 1..Len(StderrOf(f.cid)) :
       /\ StderrOf(f.cid)[k].line = Text(f.buf)
       /\ EndsInNewline(StderrOf(f.cid)[k].line)

\* C12: under every interleaving of the threads' log calls, a call that is
\* past its stderr step has written its whole line by exactly one write()
\* if its stderr gate passed and nothing otherwise, no call has written
\* twice, and every step leaves the stream as it is or appends one whole
\* line to it: the stream is a sequence of complete lines.
C12_OneWritePerLine ==
  /\ [](/\ \A t \in Threads : \A k \in 1..Len(stack[t]) :
              PastStderr(stack[t][k]) => WroteWholeLine(stack[t][k])
        /\ (LogReturned /\ ev.f.pc = "fatal") => WroteWholeLine(ev.f)
        /\ \A i, j \in 1..Len(stderr_out) :
              stderr_out[i].cid = stderr_out[j].cid => i = j
        /\ \A i \in 1..Len(stderr_out) : EndsInNewline(stderr_out[i].line))
  /\ [][\/ stderr_out' = stderr_out
        \/ /\ Len(stderr_out') = Len(stderr_out) + 1
           /\ SubSeq(stderr_out', 1, Len(stderr_out)) = stderr_out]_vars

\* Two threads have written their lines in the order opposite to the order
\* in which they called w_log.
C12_Witness ==
  /\ Len(stderr_out) = 2
  /\ stderr_out[1].cid = 2 /\ stderr_out[2].cid = 1
  /\ stderr_out[1].t # stderr_out[2].t

\* Position of the first record of call cid in the sink history out (0 when
\* there is none).
FirstOf(out, cid) ==
  IF \E i \in 1..Len(out) : out[i].cid = cid
  THEN CHOOSE i \in 1..Len(out) : out[i].cid = cid /\ \A j \in 1..(i - 1) : out[j].cid # cid
  ELSE 0

\* Every record the trace of the fatal call cid has put into the sink
\* history out comes after the fatal call's own record.
TraceAfterMessage(out, cid) ==
  \A k \in 1..Len(TraceOf(cid)) :
     LET c == TraceOf(cid)[k].cid
     IN  FirstOf(out, c) # 0 => (FirstOf(out, cid) # 0 /\ FirstOf(out, cid) < FirstOf(out, c))

\* C13: a fatal call that goes on past its gates writes its message to
\* standard error (if that gate passed) before it pushes it to the clients
\* (if that gate passed), and has done both before log_stack_trace makes its
\* first w_log call and before abort(): in a sink whose gate passed for the
\* fatal call no trace line precedes the message, and the process is not
\* aborted while such a sink lacks the message.
C13_MessageBeforeTraceAndAbort ==
  /\ \A t \in Threads : \A k \in 1..Len(stack[t]) :
       LET f == stack[t][k]
           wrote == Len(StderrOf(f.cid)) = (IF f.should_log_to_stderr THEN 1 ELSE 0)
           pushed == Len(ClientOf(f.cid)) = (IF f.should_log_to_clients THEN 1 ELSE 0)
       IN  (f.fn = "w_log" /\ f.fatal) =>
              /\ f.pc \in {"name", "format", "stderr"} =>
                    StderrOf(f.cid) = <<>> /\ ClientOf(f.cid) = <<>>
              /\ f.pc = "clients" => wrote /\ ClientOf(f.cid) = <<>>
              /\ f.pc \in {"fatal", "abort"} => wrote /\ pushed
              /\ f.pc # "abort" => TraceOf(f.cid) = <<>>
              /\ f.should_log_to_stderr => TraceAfterMessage(stderr_out, f.cid)
              /\ f.should_log_to_clients => TraceAfterMessage(client_out, f.cid)
  /\ aborted =>
       \E t \in Threads : \E k \in 1..Len(stack[t]) :
          stack[t][k].fn = "w_log" /\ stack[t][k].fatal /\ stack[t][k].pc = "abort"

\* The process was aborted by a fatal call both sinks wanted: each sink has
\* the fatal message, and after it the header of the trace.
C13_Witness ==
  /\ ev.kind = "abort" /\ aborted
  /\ ev.f.should_log_to_stderr /\ ev.f.should_log_to_clients
  /\ Len(TraceOf(ev.f.cid)) > 0
  /\ FirstOf(stderr_out, ev.f.cid) = 1 /\ FirstOf(client_out, ev.f.cid) = 1
  /\ FirstOf(stderr_out, TraceOf(ev.f.cid)[1].cid) = 2
  /\ FirstOf(client_out, TraceOf(ev.f.cid)[1].cid) = 2

\* Thread t has a current name: its slot holds one and t is not in the
\* middle of replacing it (between the free of line 114 and the
\* pthread_setspecific of line 118).
Replacing(t) ==
  \E k \in 1..Len(stack[t]) :
     stack[t][k].fn = "w_set_thread_name" /\ stack[t][k].pc \in {"render", "install"}
HasName(t) == tls[t] # NULL /\ ~Replacing(t)

\* C14: under every interleaving of the threads' registry calls, a thread
\* has at most one current name, which is a live string no other thread has
\* as its current name; a step leaves the slot of every thread that did not
\* take it alone, and leaves the current name of such a thread as it is,
\* neither changed nor released; and the name a call returns is the calling
\* thread's, not the current name of another thread.
C14_NamesArePerThread ==
  /\ [](/\ \A t \in Threads : HasName(t) => heap[tls[t]].st = "live"
        /\ \A t, u \in Threads : (HasName(t) /\ HasName(u) /\ tls[t] = tls[u]) => t = u
        /\ (ev.kind = "return" /\ ev.f.fn \in {"w_get_thread_name", "w_set_thread_name"}
             /\ ev.val # NULL)
            => /\ tls[ev.t] = ev.val
               /\ \A u \in Threads \ {ev.t} : HasName(u) => tls[u] # ev.val)
  /\ [][\A t \in Threads :
          stack'[t] = stack[t] =>
             /\ tls'[t] = tls[t]
             /\ HasName(t) => heap'[tls[t]] = heap[tls[t]]]_vars

\* While one thread is replacing its name, the string it released has been
\* handed to another thread, whose current name it now is.
C14_Witness ==
  \E t, u \in Threads :
     /\ t # u /\ Replacing(t) /\ HasName(u)
     /\ tls[t] = tls[u]

\* C15: without stack-capture support a fatal w_log call ends in abort(),
\* with its message delivered to the sinks whose gates passed and with no
\* header line and no frame line passed to w_log; it never ends otherwise.
C15_NoCaptureStillAborts ==
  ((LogReturned \/ ev.kind = "abort") /\ OrigLevel(ev.f) = W_LOG_FATAL /\ ~have_backtrace)
  => /\ ev.kind = "abort"
     /\ Serviced(ev.f)
     /\ TraceOf(ev.f.cid) = <<>>

\* The part of C15 that holds of the code: without stack-capture support a
\* fatal call that passed a gate ends in abort() with its message delivered
\* and no trace line.
NoCapturePathAborts ==
  ((LogReturned \/ ev.kind = "abort") /\ ev.f.fatal /\ ~have_backtrace)
  => /\ ev.kind = "abort"
     /\ Serviced(ev.f)
     /\ TraceOf(ev.f.cid) = <<>>

\* The last w_set_thread_name the application made on thread t failed to
\* render, and t has not begun another.
SetFailed(t) == last_set[t].set /\ ~last_set[t].ok /\ ~Replacing(t)

\* A w_set_thread_name call of the application returned after its rendering
\* failed.
FailedSetReturned ==
  /\ ev.kind = "return" /\ ev.f.fn = "w_set_thread_name" /\ ev.app
  /\ ev.f.name = NULL

\* The w_log call of thread t has obtained the thread's name (line 154):
\* w_get_thread_name has returned to it.
NameObtained(t) == stack[t] # <<>> /\ Top(t).fn = "w_log" /\ Top(t).pc = "format"

\* C16 as claimed: a w_set_thread_name whose rendering fails returns and
\* leaves the thread with a usable name: the slot holds a live string, and
\* a following w_get_thread_name or w_log call obtains a name that is
\* present.
C16_FailedSetLeavesName ==
  /\ FailedSetReturned => (tls[ev.t] # NULL /\ heap[tls[ev.t]].st = "live")
  /\ (GetReturned /\ SetFailed(ev.t)) => ev.val # NULL
  /\ \A t \in Threads : (NameObtained(t) /\ SetFailed(t)) => Top(t).rv # NULL

\* C16 as amended: a w_set_thread_name whose rendering fails returns an
\* absent name and leaves the thread without a name: the slot is empty.  A
\* following w_get_thread_name or w_log call renders and installs the
\* default name and obtains it, a live string, if that rendering succeeds;
\* if it fails too the call obtains an absent name, which w_log passes to
\* its formatter.
C16_FailedSetLeavesDefault ==
  /\ FailedSetReturned => (ev.val = NULL /\ tls[ev.t] = NULL)
  /\ (GetReturned /\ SetFailed(ev.t)) =>
        IF ev.val # NULL
        THEN /\ ev.str = <<ToString(PthreadSelf(ev.t))>>
             /\ tls[ev.t] = ev.val /\ heap[ev.val].st = "live"
        ELSE tls[ev.t] = NULL
  /\ \A t \in Threads :
       (NameObtained(t) /\ SetFailed(t)) =>
          IF Top(t).rv # NULL
          THEN /\ heap[Top(t).rv].str = <<ToString(PthreadSelf(t))>>
               /\ tls[t] = Top(t).rv /\ heap[Top(t).rv].st = "live"
          ELSE tls[t] = NULL
  /\ \A t \in Threads : \A k \in 1..Len(stack[t]) :
       LET f == stack[t][k]
       IN  (Formatted(f) /\ f.rv = NULL) => "null name" \in ub

\* After a w_set_thread_name whose rendering failed, a w_log call has
\* obtained the default name.
C16_Witness ==
  \E t \in Threads :
     /\ NameObtained(t) /\ SetFailed(t)
     /\ Top(t).rv # NULL
     /\ heap[Top(t).rv].str = <<ToString(PthreadSelf(t))>>

\* C17: whatever the length of the thread name and of the message, w_log
\* reads and writes only cells of buf, and the size it passes to vsnprintf,
\* sizeof(buf) - len, is not negative: the length snprintf returned for the
\* prefix is at most the capacity.
C17_BufferAccessInBounds ==
  /\ "buf overrun" \notin ub
  /\ \A t \in Threads : \A k \in 1..Len(stack[t]) :
       Formatted(stack[t][k]) => Len(Prefix(stack[t][k].tname)) <= BufSize

\* The part of C17 that holds of the code: a call whose prefix is no longer
\* than the buffer stays inside the buffer.
PrefixWithinBufferStaysInBounds ==
  \A t \in Threads : \A k \in 1..Len(stack[t]) :
     LET f == stack[t][k]
     IN  (Formatted(f) /\ Len(Prefix(f.tname)) <= BufSize) =>
            ~FormatLine(f.tname, f.body, vsnprintf_c99).oob

\* C18: in every state a fault signal can be delivered in, also between the
\* steps of w_set_thread_name, the slot of every thread is empty or holds a
\* string that has not been released; no w_log call, the fault handler's
\* included, reads a released name, and no name is released twice.
C18_SlotNeverDangles ==
  /\ \A t \in Threads : tls[t] # NULL => heap[tls[t]].st = "live"
  /\ "released name" \notin ub
  /\ "double free" \notin ub

\* The part of C18 that holds of the code: no name is released twice, and
\* outside w_set_thread_name's lines 114-118 the slot is empty or holds a
\* live string.
NoDoubleFree ==
  /\ "double free" \notin ub
  /\ \A t \in Threads : HasName(t) => heap[tls[t]].st = "live"

\* The fault handler's log call has read the name the interrupted
\* w_set_thread_name had released.
HandlerReadReleasedName ==
  /\ "released name" \in ub
  /\ \E t \in Threads : InHandler(t) /\ Replacing(t)

====
